---- MODULE Spec2Model ----
(***************************************************************************)
(* Model of medio/read_save.py: the three entry points read_img, save_img  *)
(* and save_dir, which select a backend (NibIO, ItkIO, PdcmIO), adapt the  *)
(* arguments and forward the call.                                         *)
(*                                                                         *)
(* A path is a sequence of components, a component a sequence of its       *)
(* dot-separated parts: "a/img.nii.gz" is << <<"a">>, <<"img","nii","gz">> >>.*)
(* The filesystem is the set of existing directories and the set of        *)
(* existing regular files; <<>> is the working directory.                  *)
(* Python's None is "None" for string-valued arguments and <<>> for the    *)
(* optional arguments whose values are not strings (Some(x) is <<x>>).     *)
(***************************************************************************)
EXTENDS Integers, Sequences, FiniteSets, TLC

VARIABLES dirs, files, pc, last

vars == <<dirs, files, pc, last>>

None == "None"
NoneOpt == <<>>
Some(x) == <<x>>

\* ---- bounds ----
MaxDepth == 2
MaxFiles == 1

\* ---- argument domains ----
DirNames == {<<"a">>}
FileNames == {<<"img", "nii">>, <<"img", "nii", "gz">>, <<"img", "mha">>, <<"a">>}
DirPaths == UNION {[1..k -> DirNames] : k \in 0..MaxDepth}
FilePaths == {Append(d, f) : d \in DirPaths, f \in FileNames}
Paths == DirPaths \cup FilePaths

Codes == {<<"R", "A", "S">>, <<"L", "P", "I">>}
Ornts == {NoneOpt} \cup {Some(c) : c \in Codes}

ReadBackends == {None, "nib", "itk", "pdcm", "pydicom", "bogus"}
SaveBackends == {None, "nib", "itk", "pdcm", "pydicom", "bogus"}
ValidDTypes == {"float32", "uint8"}
DTypes == {None, "bogus"} \cup ValidDTypes
Arrays == {[dtype |-> "float32", val |-> 515], [dtype |-> "uint8", val |-> 3]}
Metas == {"m1", "m2"}
ChannelsAxes == {NoneOpt, Some(-1)}

\* ---- paths and the filesystem ----
parent(p) == IF Len(p) = 0 THEN p ELSE SubSeq(p, 1, Len(p) - 1)

Ancestors(p) == {SubSeq(p, 1, k) : k \in 0..(Len(p) - 1)}

FsOk(ds, fs) ==
    /\ <<>> \in ds
    /\ ds \cap fs = {}
    /\ \A p \in ds \cup fs : parent(p) \in ds
    /\ Cardinality(fs) <= MaxFiles

\* os.mkdir(p): one directory, no parents
os_mkdir(ds, fs, p) ==
    IF p \in ds \cup fs THEN [err |-> "FileExistsError", dirs |-> ds]
    ELSE IF Ancestors(p) \cap fs # {} THEN [err |-> "NotADirectoryError", dirs |-> ds]
    ELSE IF parent(p) \notin ds THEN [err |-> "FileNotFoundError", dirs |-> ds]
    ELSE [err |-> None, dirs |-> ds \cup {p}]

\* Path(p).mkdir(parents=parents, exist_ok=True)
RECURSIVE mkdir(_, _, _, _)
mkdir(ds, fs, p, parents) ==
    LET r == os_mkdir(ds, fs, p) IN
    IF r.err = "FileNotFoundError" /\ parents /\ parent(p) # p
    THEN LET up == mkdir(ds, fs, parent(p), TRUE) IN
         IF up.err # None THEN up ELSE os_mkdir(up.dirs, fs, p)
    ELSE IF r.err = "FileExistsError" /\ p \in ds
    THEN [err |-> None, dirs |-> ds]
    ELSE r

\* ---- collaborators imported by read_save.py ----

\* medio.utils.files.is_nifti: the NIfTI suffix test on the last component;
\* with check_exist the path must also be an existing regular file
HasNiftiSuffix(p) ==
    /\ Len(p) > 0
    /\ LET name == p[Len(p)]
           n == Len(name)
       IN  \/ n >= 2 /\ name[n] = "nii"
           \/ n >= 3 /\ name[n] = "gz" /\ name[n - 1] = "nii"

is_nifti(fs, p, check_exist) ==
    IF check_exist /\ p \notin fs THEN FALSE ELSE HasNiftiSuffix(p)

\* medio.metadata.convert_nib_itk.inv_axcodes: every axis letter is replaced
\* by the opposite direction; None stays None
inv_axis_code(c) ==
    CASE c = "R" -> "L" [] c = "L" -> "R"
      [] c = "A" -> "P" [] c = "P" -> "A"
      [] c = "S" -> "I" [] c = "I" -> "S"

inv_axcodes(ornt) ==
    IF ornt = NoneOpt THEN NoneOpt
    ELSE Some([i \in 1..Len(ornt[1]) |-> inv_axis_code(ornt[1][i])])

\* numpy.ndarray.astype(dtype, copy=False)
NoArray == [dtype |-> None, val |-> 0]

astype(arr, dtype) ==
    IF dtype \notin ValidDTypes THEN [err |-> "TypeError", array |-> NoArray]
    ELSE [err |-> None,
          array |-> [dtype |-> dtype,
                     val |-> IF dtype = "uint8" THEN arr.val % 256 ELSE arr.val]]

\* What a backend reader may answer: an error, or an array and its metadata.
\* A path that does not exist cannot be read.
ReaderOutcomes(ds, fs, p) ==
    {[err |-> "BackendError", array |-> NoArray, meta |-> None]} \cup
    (IF p \in ds \cup fs
     THEN {[err |-> None, array |-> arr, meta |-> m] : arr \in Arrays, m \in Metas}
     ELSE {})

\* What a backend file writer may answer: an error, or the file written.
\* A file cannot be written into a missing directory or over a directory.
WriterOutcomes(ds, fs, p) ==
    {"BackendError"} \cup
    (IF Len(p) > 0 /\ parent(p) \in ds /\ p \notin ds THEN {None} ELSE {})

\* ---- read_save.py ----

Raise(e) == [err |-> e, array |-> NoArray, meta |-> None]

\* read_select without the check of desired_ornt for the pydicom reader
read_select_noguard(fs, input_path, backend, desired_ornt) ==
    IF backend = None
    THEN [err |-> None,
          reader |-> IF is_nifti(fs, input_path, TRUE) THEN "NibIO" ELSE "ItkIO",
          events |-> <<[kind |-> "is_nifti", path |-> input_path, flag |-> TRUE]>>]
    ELSE IF backend = "nib" THEN [err |-> None, reader |-> "NibIO", events |-> <<>>]
    ELSE IF backend = "itk" THEN [err |-> None, reader |-> "ItkIO", events |-> <<>>]
    ELSE IF backend \in {"pdcm", "pydicom"}
    THEN [err |-> None, reader |-> "PdcmIO", events |-> <<>>]
    ELSE [err |-> "ValueError", reader |-> None, events |-> <<>>]

\* read_select with the suffix test ahead of the backend token
read_select_suffix_first(fs, input_path, backend, desired_ornt) ==
    IF backend = None \/ is_nifti(fs, input_path, TRUE)
    THEN [err |-> None,
          reader |-> IF is_nifti(fs, input_path, TRUE) THEN "NibIO" ELSE "ItkIO",
          events |-> <<[kind |-> "is_nifti", path |-> input_path, flag |-> TRUE]>>]
    ELSE IF backend = "nib" THEN [err |-> None, reader |-> "NibIO", events |-> <<>>]
    ELSE IF backend = "itk" THEN [err |-> None, reader |-> "ItkIO", events |-> <<>>]
    ELSE IF backend \in {"pdcm", "pydicom"}
    THEN IF desired_ornt # NoneOpt
         THEN [err |-> "NotImplementedError", reader |-> None, events |-> <<>>]
         ELSE [err |-> None, reader |-> "PdcmIO", events |-> <<>>]
    ELSE [err |-> "ValueError", reader |-> None, events |-> <<>>]

\* read_img: the choice of the reader
read_select(fs, input_path, backend, desired_ornt) ==
    IF backend = None
    THEN [err |-> None,
          reader |-> IF is_nifti(fs, input_path, TRUE) THEN "NibIO" ELSE "ItkIO",
          events |-> <<[kind |-> "is_nifti", path |-> input_path, flag |-> TRUE]>>]
    ELSE IF backend = "nib" THEN [err |-> None, reader |-> "NibIO", events |-> <<>>]
    ELSE IF backend = "itk" THEN [err |-> None, reader |-> "ItkIO", events |-> <<>>]
    ELSE IF backend \in {"pdcm", "pydicom"}
    THEN IF desired_ornt # NoneOpt
         THEN [err |-> "NotImplementedError", reader |-> None, events |-> <<>>]
         ELSE [err |-> None, reader |-> "PdcmIO", events |-> <<>>]
    ELSE [err |-> "ValueError", reader |-> None, events |-> <<>>]

\* read_ornt converting the orientation for every reader
read_ornt_always(reader, desired_ornt) == inv_axcodes(desired_ornt)

\* read_img: the orientation handed on
read_ornt(reader, desired_ornt) ==
    IF reader = "NibIO" THEN inv_axcodes(desired_ornt) ELSE desired_ornt

\* read_img: the call of the reader
read_call(reader, input_path, ornt, header, channels_axis) ==
    IF reader = "PdcmIO"
    THEN [kind |-> "call", backend |-> reader, fn |-> "read_img", path |-> input_path,
          has_ornt |-> FALSE, ornt |-> NoneOpt,
          header |-> header, channels_axis |-> channels_axis]
    ELSE [kind |-> "call", backend |-> reader, fn |-> "read_img", path |-> input_path,
          has_ornt |-> TRUE, ornt |-> ornt,
          header |-> header, channels_axis |-> channels_axis]

\* read_img: the cast of the array read
read_cast(np_image, metadata, dtype) ==
    IF dtype # None
    THEN LET c == astype(np_image, dtype) IN
         IF c.err # None THEN Raise(c.err)
         ELSE [err |-> None, array |-> c.array, meta |-> metadata]
    ELSE [err |-> None, array |-> np_image, meta |-> metadata]

\* read_img(input_path, desired_ornt, backend, dtype, header, channels_axis);
\* out is what the reader answers
read_img(fs, a, out) ==
    LET sel == read_select(fs, a.input_path, a.backend, a.desired_ornt) IN
    IF sel.err # None THEN [events |-> sel.events, result |-> Raise(sel.err)]
    ELSE LET ornt == read_ornt(sel.reader, a.desired_ornt)
             ev == Append(sel.events,
                          read_call(sel.reader, a.input_path, ornt, a.header, a.channels_axis))
         IN  IF out.err # None THEN [events |-> ev, result |-> Raise(out.err)]
             ELSE [events |-> ev, result |-> read_cast(out.array, out.meta, a.dtype)]

ReadArgs ==
    [input_path : Paths, desired_ornt : Ornts, backend : ReadBackends,
     dtype : DTypes, header : BOOLEAN, channels_axis : {Some(-1), Some(0)}]

ReadImg ==
    /\ pc = "idle"
    /\ \E a \in ReadArgs :
         \E out \in ReaderOutcomes(dirs, files, a.input_path) :
            LET r == read_img(files, a, out) IN
            last' = [op |-> "read_img", args |-> a, out |-> out,
                     events |-> r.events, result |-> r.result,
                     dirs0 |-> dirs, files0 |-> files]
    /\ pc' = "called"
    /\ UNCHANGED <<dirs, files>>

\* The file writers of NibIO and ItkIO: out is what the writer answers when
\* the file can be written
file_writer(ds, fs, p, out) ==
    IF out \in WriterOutcomes(ds, fs, p) /\ out = None
    THEN [err |-> None, files |-> fs \cup {p}]
    ELSE [err |-> "BackendError", files |-> fs]

\* ItkIO.save_dcm_dir: creates the directory of the series (with its parents
\* when asked to) and writes the series into it
dir_writer(ds, fs, p, parents, out) ==
    LET m == mkdir(ds, fs, p, parents) IN
    IF out = None /\ m.err = None
    THEN [err |-> None, dirs |-> m.dirs]
    ELSE [err |-> "BackendError", dirs |-> ds]

\* save_select asking is_nifti for an existing file
save_select_exist(filename, backend) ==
    IF backend = None
    THEN [err |-> None,
          writer |-> IF is_nifti({}, filename, TRUE) THEN "NibIO" ELSE "ItkIO",
          events |-> <<[kind |-> "is_nifti", path |-> filename, flag |-> TRUE]>>]
    ELSE IF backend = "nib" THEN [err |-> None, writer |-> "NibIO", events |-> <<>>]
    ELSE IF backend = "itk" THEN [err |-> None, writer |-> "ItkIO", events |-> <<>>]
    ELSE [err |-> "ValueError", writer |-> None, events |-> <<>>]

\* save_select taking the tokens of the pydicom reader for the itk writer
save_select_pdcm(filename, backend) ==
    IF backend = None
    THEN [err |-> None,
          writer |-> IF is_nifti({}, filename, FALSE) THEN "NibIO" ELSE "ItkIO",
          events |-> <<[kind |-> "is_nifti", path |-> filename, flag |-> FALSE]>>]
    ELSE IF backend = "nib" THEN [err |-> None, writer |-> "NibIO", events |-> <<>>]
    ELSE IF backend \in {"itk", "pdcm", "pydicom"}
    THEN [err |-> None, writer |-> "ItkIO", events |-> <<>>]
    ELSE [err |-> "ValueError", writer |-> None, events |-> <<>>]

\* save_img: the choice of the writer
save_select(filename, backend) ==
    IF backend = None
    THEN [err |-> None,
          writer |-> IF is_nifti({}, filename, FALSE) THEN "NibIO" ELSE "ItkIO",
          events |-> <<[kind |-> "is_nifti", path |-> filename, flag |-> FALSE]>>]
    ELSE IF backend = "nib" THEN [err |-> None, writer |-> "NibIO", events |-> <<>>]
    ELSE IF backend = "itk" THEN [err |-> None, writer |-> "ItkIO", events |-> <<>>]
    ELSE [err |-> "ValueError", writer |-> None, events |-> <<>>]

\* save_mkdir not passing parents on
save_mkdir_noparents(ds, fs, filename, mk, parents) ==
    IF mk
    THEN LET m == mkdir(ds, fs, parent(filename), FALSE) IN
         [err |-> m.err, dirs |-> m.dirs,
          events |-> <<[kind |-> "mkdir", path |-> parent(filename), flag |-> FALSE]>>]
    ELSE [err |-> None, dirs |-> ds, events |-> <<>>]

\* save_mkdir creating the directory when parents alone is set
save_mkdir_parents(ds, fs, filename, mk, parents) ==
    IF mk \/ parents
    THEN LET m == mkdir(ds, fs, parent(filename), parents) IN
         [err |-> m.err, dirs |-> m.dirs,
          events |-> <<[kind |-> "mkdir", path |-> parent(filename), flag |-> parents]>>]
    ELSE [err |-> None, dirs |-> ds, events |-> <<>>]

\* save_img: the creation of the directory of filename
save_mkdir(ds, fs, filename, mk, parents) ==
    IF mk
    THEN LET m == mkdir(ds, fs, parent(filename), parents) IN
         [err |-> m.err, dirs |-> m.dirs,
          events |-> <<[kind |-> "mkdir", path |-> parent(filename), flag |-> parents]>>]
    ELSE [err |-> None, dirs |-> ds, events |-> <<>>]

\* save_cast leaving the array as it is
save_cast_skip(np_image, dtype) == [err |-> None, array |-> np_image]

\* save_img and save_dir: the cast of the array to write
save_cast(np_image, dtype) ==
    IF dtype # None THEN astype(np_image, dtype)
    ELSE [err |-> None, array |-> np_image]

WriteCall(backend, fn, path, a, np_image, parents, allow, ds) ==
    [kind |-> "call", backend |-> backend, fn |-> fn, path |-> path,
     array |-> np_image, meta |-> a.metadata,
     use_original_ornt |-> a.use_original_ornt, channels_axis |-> a.channels_axis,
     parents |-> parents, allow_dcm_reorient |-> allow, dirs |-> ds]

\* save_img(filename, np_image, metadata, use_original_ornt, backend, dtype,
\* channels_axis, mkdir, parents); out is what the writer answers
save_img(ds, fs, a, out) ==
    LET sel == save_select(a.filename, a.backend) IN
    IF sel.err # None
    THEN [events |-> sel.events, err |-> sel.err, werr |-> None, dirs |-> ds, files |-> fs]
    ELSE LET mk == save_mkdir(ds, fs, a.filename, a.mkdir, a.parents)
             ev1 == sel.events \o mk.events
         IN  IF mk.err # None
             THEN [events |-> ev1, err |-> mk.err, werr |-> None, dirs |-> mk.dirs, files |-> fs]
             ELSE LET c == save_cast(a.np_image, a.dtype) IN
                  IF c.err # None
                  THEN [events |-> ev1, err |-> c.err, werr |-> None, dirs |-> mk.dirs,
                        files |-> fs]
                  ELSE LET w == file_writer(mk.dirs, fs, a.filename, out)
                           ev2 == Append(ev1, WriteCall(sel.writer, "save_img", a.filename, a,
                                                        c.array, FALSE, FALSE, mk.dirs))
                       IN  [events |-> ev2, err |-> w.err, werr |-> w.err, dirs |-> mk.dirs,
                            files |-> w.files]

\* save_dir forwarding to the pydicom backend
save_dir_pdcm(ds, fs, a, out) ==
    LET c == save_cast(a.np_image, a.dtype) IN
    IF c.err # None
    THEN [events |-> <<>>, err |-> c.err, werr |-> None, dirs |-> ds, files |-> fs]
    ELSE LET w == dir_writer(ds, fs, a.dirname, a.parents, out) IN
         [events |-> <<WriteCall("PdcmIO", "save_dcm_dir", a.dirname, a, c.array,
                                 a.parents, a.allow_dcm_reorient, ds)>>,
          err |-> w.err, werr |-> w.err, dirs |-> w.dirs, files |-> fs]

\* save_dir writing the caller's array and casting afterwards
save_dir_late_cast(ds, fs, a, out) ==
    LET w == dir_writer(ds, fs, a.dirname, a.parents, out)
        c == save_cast(a.np_image, a.dtype)
    IN  [events |-> <<WriteCall("ItkIO", "save_dcm_dir", a.dirname, a, a.np_image,
                                a.parents, a.allow_dcm_reorient, ds)>>,
         err |-> IF w.err # None THEN w.err ELSE c.err,
         werr |-> w.err, dirs |-> w.dirs, files |-> fs]

\* save_dir(dirname, np_image, metadata, use_original_ornt, dtype, channels_axis,
\* parents, allow_dcm_reorient); out is what the writer answers
save_dir(ds, fs, a, out) ==
    LET c == save_cast(a.np_image, a.dtype) IN
    IF c.err # None
    THEN [events |-> <<>>, err |-> c.err, werr |-> None, dirs |-> ds, files |-> fs]
    ELSE LET w == dir_writer(ds, fs, a.dirname, a.parents, out) IN
         [events |-> <<WriteCall("ItkIO", "save_dcm_dir", a.dirname, a, c.array,
                                 a.parents, a.allow_dcm_reorient, ds)>>,
          err |-> w.err, werr |-> w.err, dirs |-> w.dirs, files |-> fs]

SaveArgs ==
    [filename : Paths, np_image : Arrays, metadata : Metas, use_original_ornt : BOOLEAN,
     backend : SaveBackends, dtype : DTypes, channels_axis : ChannelsAxes,
     mkdir : BOOLEAN, parents : BOOLEAN]

SaveDirArgs ==
    [dirname : DirPaths, np_image : Arrays, metadata : Metas, use_original_ornt : BOOLEAN,
     dtype : DTypes, channels_axis : ChannelsAxes, parents : BOOLEAN,
     allow_dcm_reorient : BOOLEAN]

SaveImg ==
    /\ pc = "idle"
    /\ \E a \in SaveArgs, out \in {None, "BackendError"} :
         LET r == save_img(dirs, files, a, out) IN
         /\ Cardinality(r.files) <= MaxFiles
         /\ dirs' = r.dirs
         /\ files' = r.files
         /\ last' = [op |-> "save_img", args |-> a, events |-> r.events, werr |-> r.werr,
                     result |-> Raise(r.err), dirs0 |-> dirs, files0 |-> files]
    /\ pc' = "called"

SaveDir ==
    /\ pc = "idle"
    /\ \E a \in SaveDirArgs, out \in {None, "BackendError"} :
         LET r == save_dir(dirs, files, a, out) IN
         /\ dirs' = r.dirs
         /\ files' = r.files
         /\ last' = [op |-> "save_dir", args |-> a, events |-> r.events, werr |-> r.werr,
                     result |-> Raise(r.err), dirs0 |-> dirs, files0 |-> files]
    /\ pc' = "called"

Init ==
    /\ dirs \in SUBSET DirPaths
    /\ files \in SUBSET FilePaths
    /\ FsOk(dirs, files)
    /\ pc = "idle"
    /\ last = [op |-> "none"]

Return ==
    /\ pc = "called"
    /\ pc' = "idle"
    /\ last' = [op |-> "none"]
    /\ UNCHANGED <<dirs, files>>

Next == ReadImg \/ SaveImg \/ SaveDir \/ Return

Spec == Init /\ [][Next]_vars
\* ---- properties ----

IsCall(e) == e.kind = "call"

Calls == SelectSeq(last.events, IsCall)

Called(op) == pc = "called" /\ last.op = op

FacadeErrors == {"ValueError", "NotImplementedError"}

MkdirErrors == {"FileExistsError", "NotADirectoryError", "FileNotFoundError"}

\* C1: with backend=None, read_img and save_img invoke NibIO exactly when
\* is_nifti(path) holds (save_img asking with check_exist=False) and ItkIO for
\* every other path; no other backend is invoked.
C1_SuffixSelection ==
    /\ (Called("read_img") /\ last.args.backend = None) =>
         /\ Len(Calls) = 1
         /\ Calls[1].backend =
              IF is_nifti(last.files0, last.args.input_path, TRUE) THEN "NibIO" ELSE "ItkIO"
    /\ (Called("save_img") /\ last.args.backend = None) =>
         \A i \in DOMAIN Calls :
            Calls[i].backend =
              IF is_nifti(last.files0, last.args.filename, FALSE) THEN "NibIO" ELSE "ItkIO"

C1_Witness ==
    /\ Called("save_img") /\ last.args.backend = None
    /\ last.args.filename = << <<"a">>, <<"img", "nii", "gz">> >>
    /\ last.args.filename \notin last.files0
    /\ Len(Calls) = 1 /\ Calls[1].backend = "NibIO"

\* C2: read_img with backend 'pdcm' or 'pydicom' raises NotImplementedError
\* before any backend call or I/O when desired_ornt is not None, and with
\* desired_ornt=None it calls PdcmIO.read_img exactly once.
C2_PdcmNoReorient ==
    (Called("read_img") /\ last.args.backend \in {"pdcm", "pydicom"}) =>
        IF last.args.desired_ornt # NoneOpt
        THEN last.result.err = "NotImplementedError" /\ last.events = <<>>
        ELSE /\ last.result.err # "NotImplementedError"
             /\ Len(last.events) = 1 /\ Len(Calls) = 1
             /\ Calls[1].backend = "PdcmIO" /\ Calls[1].fn = "read_img"

C2_Witness ==
    /\ Called("read_img") /\ last.args.backend = "pydicom"
    /\ last.args.desired_ornt = Some(<<"R", "A", "S">>)
    /\ last.args.input_path \in last.dirs0
    /\ last.result.err = "NotImplementedError"

\* C3: a backend token that read_img (outside nib, itk, pdcm, pydicom, None)
\* or save_img (outside nib, itk, None) does not know raises ValueError with
\* no directory created, even with mkdir=True, and no backend invoked.
C3_BadTokenNoEffect ==
    /\ (Called("read_img") /\ last.args.backend \notin {None, "nib", "itk", "pdcm", "pydicom"}) =>
         /\ last.result.err = "ValueError" /\ last.events = <<>>
         /\ dirs = last.dirs0 /\ files = last.files0
    /\ (Called("save_img") /\ last.args.backend \notin {None, "nib", "itk"}) =>
         /\ last.result.err = "ValueError" /\ last.events = <<>>
         /\ dirs = last.dirs0 /\ files = last.files0

C3_Witness ==
    /\ Called("save_img") /\ last.args.backend = "pdcm"
    /\ last.args.mkdir /\ last.args.parents
    /\ parent(last.args.filename) \notin last.dirs0
    /\ last.result.err = "ValueError" /\ dirs = last.dirs0

\* C4 as stated: save_dir always forwards to the DICOM-series backend
\* (PdcmIO) and never invokes NibIO or ItkIO.
C4_Original ==
    Called("save_dir") =>
        /\ Len(Calls) = 1
        /\ Calls[1].backend = "PdcmIO"

\* C4 amended: save_dir never invokes NibIO or PdcmIO; unless the dtype cast
\* raises, it forwards exactly once to ItkIO.save_dcm_dir with its arguments.
C4_SaveDirForwardsToItk ==
    Called("save_dir") =>
        /\ \A i \in DOMAIN Calls :
              Calls[i].backend = "ItkIO" /\ Calls[i].fn = "save_dcm_dir"
        /\ (last.args.dtype \in ValidDTypes \cup {None}) =>
              /\ Len(Calls) = 1
              /\ Calls[1].path = last.args.dirname
              /\ Calls[1].meta = last.args.metadata
              /\ Calls[1].use_original_ornt = last.args.use_original_ornt
              /\ Calls[1].channels_axis = last.args.channels_axis
              /\ Calls[1].parents = last.args.parents
              /\ Calls[1].allow_dcm_reorient = last.args.allow_dcm_reorient

C4_Witness ==
    /\ Called("save_dir") /\ last.args.dirname = << <<"a">>, <<"a">> >>
    /\ last.args.parents /\ last.args.allow_dcm_reorient
    /\ Len(Calls) = 1 /\ Calls[1].backend = "ItkIO" /\ last.result.err = None

\* C5: save_img with mkdir=True and a valid backend. With parents=True every
\* ancestor directory of filename exists when the writer is invoked, the
\* mkdir comes before the writer, and existing directories are no failure.
\* With parents=False at most the immediate parent is created, again without
\* failure when it exists.
C5_MkdirBeforeWrite ==
    (Called("save_img") /\ last.args.mkdir /\ last.args.backend \in {None, "nib", "itk"}) =>
        LET f == last.args.filename
            n == Len(last.events)
        IN  /\ parent(f) \in last.dirs0 => last.result.err \notin MkdirErrors
            /\ last.args.parents =>
                 /\ Ancestors(f) \cap last.files0 = {} =>
                       /\ last.result.err \notin MkdirErrors
                       /\ Ancestors(f) \subseteq dirs
                 /\ \A i \in DOMAIN last.events :
                       last.events[i].kind = "call" =>
                          /\ Ancestors(f) \subseteq last.events[i].dirs
                          /\ \E j \in 1..(i - 1) : last.events[j].kind = "mkdir"
            /\ ~last.args.parents =>
                 /\ dirs \subseteq last.dirs0 \cup {parent(f)}
                 /\ (parent(parent(f)) \in last.dirs0 /\ parent(f) \notin last.files0) =>
                       /\ last.result.err \notin MkdirErrors
                       /\ parent(f) \in dirs
                 /\ parent(parent(f)) \notin last.dirs0 =>
                       /\ last.result.err \in MkdirErrors
                       /\ dirs = last.dirs0

C5_Witness ==
    /\ Called("save_img") /\ last.args.mkdir /\ last.args.parents
    /\ last.args.backend = "nib"
    /\ Len(last.args.filename) = 3
    /\ last.dirs0 = {<<>>}
    /\ Len(Calls) = 1 /\ Ancestors(last.args.filename) \subseteq Calls[1].dirs
    /\ last.result.err = None

\* C6: in save_img and save_dir the writer receives an array of the requested
\* dtype when dtype is not None and the caller's array when it is None; in
\* read_img the array returned has the requested dtype and the metadata
\* returned is the metadata the backend produced.
C6_DtypeCast ==
    /\ (Called("save_img") \/ Called("save_dir")) =>
         \A i \in DOMAIN Calls :
            /\ last.args.dtype # None => Calls[i].array.dtype = last.args.dtype
            /\ last.args.dtype = None => Calls[i].array = last.args.np_image
    /\ (Called("read_img") /\ last.result.err = None) =>
         /\ last.args.dtype # None => last.result.array.dtype = last.args.dtype
         /\ last.args.dtype = None => last.result.array = last.out.array
         /\ last.result.meta = last.out.meta

C6_Witness ==
    /\ Called("save_img") /\ last.args.dtype = "uint8"
    /\ last.args.np_image.dtype = "float32"
    /\ Len(Calls) = 1 /\ Calls[1].array = [dtype |-> "uint8", val |-> 3]

\* C7: in read_img NibIO receives inv_axcodes(desired_ornt), the code
\* converted once, and ItkIO receives desired_ornt as the caller passed it,
\* whether the backend was selected by token or by suffix.
C7_OrientationPerBackend ==
    Called("read_img") =>
        \A i \in DOMAIN Calls :
           /\ Calls[i].backend = "NibIO" =>
                /\ Calls[i].has_ornt
                /\ Calls[i].ornt = inv_axcodes(last.args.desired_ornt)
                /\ last.args.desired_ornt # NoneOpt => Calls[i].ornt # last.args.desired_ornt
           /\ Calls[i].backend = "ItkIO" =>
                /\ Calls[i].has_ornt
                /\ Calls[i].ornt = last.args.desired_ornt

C7_Witness ==
    /\ Called("read_img") /\ last.args.backend = None
    /\ last.args.desired_ornt = Some(<<"R", "A", "S">>)
    /\ Len(Calls) = 1 /\ Calls[1].backend = "NibIO"
    /\ Calls[1].ornt = Some(<<"L", "P", "I">>)

\* C8 as stated: a call that does not fail with ValueError or
\* NotImplementedError makes exactly one backend call, and a call that fails
\* with one of them makes none.
C8_Original ==
    pc = "called" =>
        IF last.result.err \in FacadeErrors THEN Len(Calls) = 0 ELSE Len(Calls) = 1

\* C8 amended: no call makes more than one backend call; a call makes none
\* exactly when it raises before the backend is reached: ValueError or
\* NotImplementedError of the facade, an error of the mkdir of save_img, or an
\* error of the dtype cast of save_img and save_dir; every other call makes
\* exactly one.
C8_AtMostOneCall ==
    pc = "called" =>
        /\ Len(Calls) <= 1
        /\ Len(Calls) = 0 <=>
              \/ last.result.err \in FacadeErrors
              \/ last.op = "save_img" /\ last.result.err \in MkdirErrors
              \/ last.op \in {"save_img", "save_dir"} /\ last.result.err = "TypeError"

C8_Witness ==
    /\ Called("save_img") /\ last.args.mkdir /\ ~last.args.parents
    /\ last.args.backend = "itk"
    /\ last.result.err = "FileNotFoundError"
    /\ Len(Calls) = 0

\* C9: in save_img, when the writer fails after mkdir=True the directory
\* created stays and the error of the writer is the error raised; with
\* mkdir=False no directory is created, whatever parents is, and the only
\* change of the filesystem is the file of the writer.
C9_NoRollback ==
    Called("save_img") =>
        /\ last.dirs0 \subseteq dirs
        /\ (last.args.mkdir /\ Len(Calls) = 1 /\ last.werr # None) =>
              /\ last.result.err = last.werr
              /\ parent(last.args.filename) \in dirs
              /\ dirs = Calls[1].dirs
        /\ ~last.args.mkdir => dirs = last.dirs0
        /\ files # last.files0 =>
              /\ Len(Calls) = 1 /\ last.result.err = None
              /\ files = last.files0 \cup {last.args.filename}

C9_Witness ==
    /\ Called("save_img") /\ last.args.mkdir
    /\ parent(last.args.filename) \notin last.dirs0
    /\ Len(Calls) = 1 /\ last.result.err = "BackendError"
    /\ parent(last.args.filename) \in dirs

\* C10: in read_img an explicit backend wins over the suffix ('itk' on a NIfTI
\* path invokes ItkIO, 'nib' on another path NibIO), and with backend=None
\* PdcmIO is never selected, not even for a directory, and neither
\* NotImplementedError nor ValueError is raised.
C10_TokenPrecedence ==
    Called("read_img") =>
        /\ last.args.backend = "itk" => Len(Calls) = 1 /\ Calls[1].backend = "ItkIO"
        /\ last.args.backend = "nib" => Len(Calls) = 1 /\ Calls[1].backend = "NibIO"
        /\ last.args.backend = None =>
              /\ \A i \in DOMAIN Calls : Calls[i].backend # "PdcmIO"
              /\ last.result.err \notin FacadeErrors

C10_Witness ==
    /\ Called("read_img") /\ last.args.backend = "itk"
    /\ is_nifti(last.files0, last.args.input_path, TRUE)
    /\ Len(Calls) = 1 /\ Calls[1].backend = "ItkIO"
    /\ last.result.err = None
====
